---- MODULE Spec2Model ----
(***************************************************************************)
(* A model of loudmouth's SASL client, src/loudmouth/lm-sasl.c: the        *)
(* LmSASL object, its four message handlers (features, challenge, success, *)
(* failure), the PLAIN and DIGEST-MD5 mechanisms and the DIGEST-MD5        *)
(* challenge parser.                                                       *)
(*                                                                         *)
(* C strings are sequences of one-character strings; a pointer that may be *)
(* NULL is <<>> (NULL) or <<v>> (a pointer to v).                          *)
(***************************************************************************)
EXTENDS Integers, Sequences, FiniteSets, TLC

\* ------------------------------------------------------------------ bounds

\* Invocations of the result callback after which no further message is delivered.
MaxCalls == 2
\* Children of a <mechanisms/> element, where every list of names is drawn.
MaxMechs == 2
\* Writes of sasl->digest_md5_rspauth, and comparisons of it with a server's
\* rspauth, after which no further message is delivered.
MaxUses == 2
\* Characters and escaped characters of a quoted value handed to the parser.
MaxUnits == 3

\* ----------------------------------------------------------- C-level values

NULL == <<>>
Ptr(v) == <<v>>
IsNull(p) == p = <<>>
Deref(p) == p[1]

\* AuthType (a bitmask) and SaslAuthState.
AUTH_TYPE_PLAIN == 1
AUTH_TYPE_DIGEST == 2
SASL_AUTH_STATE_NO_MECH == 0
SASL_AUTH_STATE_PLAIN_STARTED == 1
SASL_AUTH_STATE_DIGEST_MD5_STARTED == 2
SASL_AUTH_STATE_DIGEST_MD5_SENT_AUTH_RESPONSE == 3
SASL_AUTH_STATE_DIGEST_MD5_SENT_FINAL_RESPONSE == 4

XMPP_NS_SASL_AUTH == "urn:ietf:params:xml:ns:xmpp-sasl"

\* auth_type |= bit, for the two one-bit masks of AuthType.
BitOr(a, bit) == IF (a \div bit) % 2 = 1 THEN a ELSE a + bit
BitAnd(a, bit) == IF (a \div bit) % 2 = 1 THEN bit ELSE 0

\* The byte that ends a C string: what *c reads one past the last character.
NUL == "NUL"
At(str, i) == IF i >= 1 /\ i <= Len(str) THEN str[i] ELSE NUL

\* ------------------------------------------------------- challenge parser

\* strndup_unescaped(str + start - 1, len): one output character per loop
\* round; a backslash makes the round copy the character after it.
RECURSIVE strndup_unescaped_from(_, _, _)
strndup_unescaped_from(str, s, end) ==
    IF s >= end THEN <<>>
    ELSE IF At(str, s) = "\\"
         THEN <<At(str, s + 1)>> \o strndup_unescaped_from(str, s + 2, end)
         ELSE <<At(str, s)>> \o strndup_unescaped_from(str, s + 1, end)

strndup_unescaped(str, start, len) == strndup_unescaped_from(str, start, start + len)

g_strndup(str, start, len) == SubSeq(str, start, start + len - 1)

\* for (; *c != '\0' && *c != stop; c++);
RECURSIVE ScanTo(_, _, _)
ScanTo(str, c, stop) ==
    IF At(str, c) = NUL \/ At(str, c) = stop THEN c ELSE ScanTo(str, c + 1, stop)

\* g_hash_table_insert: a later value of a key replaces the earlier one.
g_hash_table_insert(h, key, val) ==
    [k \in DOMAIN h \cup {key} |-> IF k = key THEN val ELSE h[k]]

g_hash_table_lookup(h, key) == IF key \in DOMAIN h THEN Ptr(h[key]) ELSE NULL

EmptyTable == [k \in {} |-> <<>>]

\* ParseDirectives with an empty value taken instead of refused.
RECURSIVE ParseDirectivesEmptyTaken(_, _, _)
ParseDirectivesEmptyTaken(challenge, keystart, result) ==
    LET keyend == ScanTo(challenge, keystart, "=")
    IN  IF At(challenge, keyend) = NUL \/ keyend = keystart THEN NULL
        ELSE LET c1 == keyend + 1
                 quoted == At(challenge, c1) = "\""
                 valstart == IF quoted THEN c1 + 1 ELSE c1
                 valend == ScanTo(challenge, valstart, IF quoted THEN "\"" ELSE ",")
                 bad == quoted /\ At(challenge, valend) = NUL
                 val == IF quoted
                        THEN strndup_unescaped(challenge, valstart, valend - valstart)
                        ELSE g_strndup(challenge, valstart, valend - valstart)
                 c2 == IF quoted THEN valend + 1 ELSE valend
                 key == g_strndup(challenge, keystart, keyend - keystart)
                 c3 == IF At(challenge, c2) = "," THEN c2 + 1 ELSE c2
                 table == g_hash_table_insert(result, key, val)
             IN  IF bad THEN NULL
                 ELSE IF At(challenge, c3) # NUL
                      THEN ParseDirectivesEmptyTaken(challenge, c3, table)
                      ELSE Ptr(table)

\* One round of the do-while loop of digest_md5_challenge_to_hash, at c, with
\* the table built so far; NULL on the error path.
RECURSIVE ParseDirectives(_, _, _)
ParseDirectives(challenge, keystart, result) ==
    LET keyend == ScanTo(challenge, keystart, "=")
    IN  IF At(challenge, keyend) = NUL \/ keyend = keystart THEN NULL
        ELSE LET c1 == keyend + 1
                 quoted == At(challenge, c1) = "\""
                 valstart == IF quoted THEN c1 + 1 ELSE c1
                 valend == ScanTo(challenge, valstart, IF quoted THEN "\"" ELSE ",")
                 bad == IF quoted
                        THEN At(challenge, valend) = NUL \/ valend = valstart
                        ELSE valend = valstart
                 val == IF quoted
                        THEN strndup_unescaped(challenge, valstart, valend - valstart)
                        ELSE g_strndup(challenge, valstart, valend - valstart)
                 c2 == IF quoted THEN valend + 1 ELSE valend
                 key == g_strndup(challenge, keystart, keyend - keystart)
                 c3 == IF At(challenge, c2) = "," THEN c2 + 1 ELSE c2
                 table == g_hash_table_insert(result, key, val)
             IN  IF bad THEN NULL
                 ELSE IF At(challenge, c3) # NUL
                      THEN ParseDirectives(challenge, c3, table)
                      ELSE Ptr(table)

digest_md5_challenge_to_hash(challenge) == ParseDirectives(challenge, 1, EmptyTable)

\* ------------------------------------------------------------ MD5, base64

\* The characters of the model's strings; a character's byte is its place here.
Chars == <<"a", "b", "c", "d", "e", "f", "g", "h", "i", "j", "k", "l", "m", "n", "o", "p", "q", "r", "s", "t", "u", "v", "w", "x", "y", "z", "A", "U", "T", "H", "E", "N", "I", "C", "X", "0", "1", "2", "3", "4", "5", "6", "7", "8", "9", "=", "\"", ",", "\\", ":", "/", "-", ".", " ">>
HexDigits == <<"0", "1", "2", "3", "4", "5", "6", "7", "8", "9", "a", "b", "c", "d", "e", "f">>

ByteOf(ch) == CHOOSE i \in 1..Len(Chars) : Chars[i] = ch
Bytes(str) == [i \in 1..Len(str) |-> ByteOf(str[i])]

\* md5_init / md5_append / md5_finish (md5.h, outside this file): a digest of
\* the bytes, here one byte wide instead of sixteen.
RECURSIVE md5_fold(_, _)
md5_fold(bytes, h) ==
    IF bytes = <<>> THEN h ELSE md5_fold(Tail(bytes), (h * 31 + Head(bytes)) % 256)

md5_digest(bytes) == <<md5_fold(bytes, 7)>>

\* "%02x" of every digest byte.
RECURSIVE HexOf(_)
HexOf(digest) ==
    IF digest = <<>> THEN <<>>
    ELSE <<HexDigits[(Head(digest) \div 16) + 1], HexDigits[(Head(digest) % 16) + 1]>>
         \o HexOf(Tail(digest))

md5_hex_hash(bytes) == HexOf(md5_digest(bytes))

\* base64.h, outside this file: an encoding that is not the text itself.
base64_encode(str) == <<"b64">> \o str
base64_decode(encoded) == Tail(encoded)

\* ------------------------------------------------------------ the session

K_nonce == <<"n", "o", "n", "c", "e">>
K_realm == <<"r", "e", "a", "l", "m">>
K_rspauth == <<"r", "s", "p", "a", "u", "t", "h">>
F_username == <<"u", "s", "e", "r", "n", "a", "m", "e", "=", "\"">>
F_realm == <<",", "r", "e", "a", "l", "m", "=", "\"">>
F_digest_uri == <<",", "d", "i", "g", "e", "s", "t", "-", "u", "r", "i", "=", "\"", "x", "m", "p", "p", "/">>
F_nonce == <<",", "n", "o", "n", "c", "e", "=", "\"">>
F_nc == <<"\"", ",", "n", "c", "=", "0", "0", "0", "0", "0", "0", "0", "1">>
F_cnonce == <<",", "c", "n", "o", "n", "c", "e", "=", "\"">>
F_qop == <<"\"", ",", "q", "o", "p", "=", "a", "u", "t", "h", ",", "c", "h", "a", "r", "s", "e", "t", "=", "u", "t", "f", "-", "8">>
F_response == <<",", "r", "e", "s", "p", "o", "n", "s", "e", "=">>
F_authenticate == <<"A", "U", "T", "H", "E", "N", "T", "I", "C", "A", "T", "E", ":", "x", "m", "p", "p", "/">>
F_xmpp == <<":", "x", "m", "p", "p", "/">>
F_nc_mid == <<":", "0", "0", "0", "0", "0", "0", "0", "1", ":">>
F_auth_mid == <<":", "a", "u", "t", "h", ":">>
Quote == <<"\"">>
Colon == <<":">>

VARIABLES
    sasl,        \* the LmSASL object's fields
    ncalls,      \* how often sasl->handler has been invoked so far
    crashed,     \* the process aborted (g_assert_not_reached, or a freed object used)
    registered,  \* the handlers of this session registered on the connection
    freed,       \* lm_sasl_free was called
    asserts,     \* the build keeps g_assert_not_reached (G_DISABLE_ASSERT is not set)
    last,        \* the last handler run: its message, the fields before it, and
                 \* what it did (the callback invocations, the messages sent, the
                 \* results of lm_connection_send, the value returned)
    uses,        \* how often sasl->digest_md5_rspauth has been written, and how
                 \* often it has been compared with a server's rspauth
    journal,     \* where a whole exchange is followed: the messages the
                 \* connection took, and the states the session entered, in order
    parse        \* where the parser is run alone: its input and its result

vars == <<sasl, ncalls, crashed, registered, freed, asserts, last, uses, journal, parse>>

\* What a handler run works on: the object, and what the run has done so far:
\* calls are its invocations of sasl->handler, sent the messages the connection
\* took from it, tx the results of its lm_connection_send calls, stored its
\* writes of sasl->digest_md5_rspauth, compared its strcmp calls on that field.
World ==
    [sasl |-> sasl, calls |-> <<>>, sent |-> <<>>, crashed |-> crashed, tx |-> <<>>,
     stored |-> 0, compared |-> 0]

\* if (sasl->handler) sasl->handler (sasl, sasl->connection, success, reason);
Invoke(w, success, reason) ==
    IF w.sasl.handler
    THEN [w EXCEPT !.calls = Append(@, [success |-> success, reason |-> reason])]
    ELSE w

\* lm_connection_send (lm-connection.h): the message goes out, or FALSE.
lm_connection_send(w, msg, ok) ==
    [w EXCEPT !.sent = IF ok THEN Append(@, msg) ELSE @, !.tx = Append(@, ok)]

g_assert_not_reached(w) == IF asserts THEN [w EXCEPT !.crashed = TRUE] ELSE w

\* md5_prepare_response: the response text (NULL on error) and the world after,
\* with the expected rspauth stored.
md5_prepare_response(w, challenge, cnonce) ==
    IF IsNull(w.sasl.username) \/ IsNull(w.sasl.password)
    THEN [response |-> NULL,
          w |-> Invoke(w, FALSE, Ptr("no username/password provided"))]
    ELSE LET nonce == g_hash_table_lookup(challenge, K_nonce)
         IN  \* nonce == '\0' compares the pointer with 0: the same test again
             IF IsNull(nonce) \/ IsNull(nonce)
             THEN [response |-> NULL, w |-> Invoke(w, FALSE, Ptr("server error"))]
             ELSE LET n == Deref(nonce)
                      found == g_hash_table_lookup(challenge, K_realm)
                      realm == IF IsNull(found) THEN Deref(w.sasl.server) ELSE Deref(found)
                      user == Deref(w.sasl.username)
                      pass == Deref(w.sasl.password)
                      head == F_username \o user \o Quote \o F_realm \o realm \o Quote
                              \o F_digest_uri \o realm \o Quote \o F_nonce \o n \o F_nc
                              \o F_cnonce \o cnonce \o F_qop
                      digest == md5_digest(Bytes(user \o Colon \o realm \o Colon \o pass))
                      a1h == md5_hex_hash(digest \o Bytes(Colon \o n \o Colon \o cnonce))
                      a2h == md5_hex_hash(Bytes(F_authenticate \o realm))
                      kdh == md5_hex_hash(Bytes(a1h \o Colon \o n \o F_nc_mid \o cnonce
                                                \o F_auth_mid \o a2h))
                      a2hs == md5_hex_hash(Bytes(F_xmpp \o realm))
                      kds == a1h \o Colon \o n \o F_nc_mid \o cnonce \o F_auth_mid \o a2hs
                  IN  [response |-> Ptr(head \o F_response \o kdh),
                       w |-> [w EXCEPT !.sasl.digest_md5_rspauth =
                                           Ptr(md5_hex_hash(Bytes(kds))),
                                       !.stored = @ + 1]]

ResponseMsg(value) == [type |-> "response", xmlns |-> XMPP_NS_SASL_AUTH, value |-> value]

digest_md5_send_initial_response(w, challenge, cnonce, ok) ==
    LET r == md5_prepare_response(w, challenge, cnonce)
    IN  IF IsNull(r.response) THEN r.w
        ELSE LET w2 == lm_connection_send(
                           r.w, ResponseMsg(Ptr(base64_encode(Deref(r.response)))), ok)
             IN  IF ~ok THEN w2
                 ELSE [w2 EXCEPT !.sasl.state =
                                     SASL_AUTH_STATE_DIGEST_MD5_SENT_AUTH_RESPONSE]

\* digest_md5_check_server_response with any rspauth taken for the expected one.
digest_md5_check_server_response_unchecked(w, challenge, ok) ==
    LET rspauth == g_hash_table_lookup(challenge, K_rspauth)
    IN  IF IsNull(rspauth) THEN Invoke(w, TRUE, Ptr("server error"))
        ELSE LET w1 == [w EXCEPT !.compared = @ + 1]
                 w2 == lm_connection_send(w1, ResponseMsg(NULL), ok)
             IN  IF ~ok THEN w2
                 ELSE [w2 EXCEPT !.sasl.state =
                                     SASL_AUTH_STATE_DIGEST_MD5_SENT_FINAL_RESPONSE]

\* digest_md5_check_server_response with the final response left unsent.
digest_md5_check_server_response_unsent(w, challenge, ok) ==
    LET rspauth == g_hash_table_lookup(challenge, K_rspauth)
    IN  IF IsNull(rspauth) THEN Invoke(w, TRUE, Ptr("server error"))
        ELSE LET w1 == [w EXCEPT !.compared = @ + 1]
             IN  IF Deref(w.sasl.digest_md5_rspauth) # Deref(rspauth)
                 THEN Invoke(w1, TRUE, Ptr("server error"))
                 ELSE [w1 EXCEPT !.sasl.state =
                                     SASL_AUTH_STATE_DIGEST_MD5_SENT_FINAL_RESPONSE]

digest_md5_check_server_response(w, challenge, ok) ==
    LET rspauth == g_hash_table_lookup(challenge, K_rspauth)
    IN  IF IsNull(rspauth) THEN Invoke(w, TRUE, Ptr("server error"))
        ELSE LET w1 == [w EXCEPT !.compared = @ + 1]
             IN  IF Deref(w.sasl.digest_md5_rspauth) # Deref(rspauth)
                 THEN Invoke(w1, TRUE, Ptr("server error"))
                 ELSE LET w2 == lm_connection_send(w1, ResponseMsg(NULL), ok)
                      IN  IF ~ok THEN w2
                          ELSE [w2 EXCEPT
                                    !.sasl.state =
                                        SASL_AUTH_STATE_DIGEST_MD5_SENT_FINAL_RESPONSE]

\* digest_md5_handle_challenge with a challenge that does not parse dropped.
digest_md5_handle_challenge_dropped(w, node, cnonce, ok) ==
    IF IsNull(node.value) THEN w
    ELSE LET h == digest_md5_challenge_to_hash(base64_decode(Deref(node.value)))
         IN  IF IsNull(h) THEN w
             ELSE IF w.sasl.state = SASL_AUTH_STATE_DIGEST_MD5_STARTED
                  THEN digest_md5_send_initial_response(w, Deref(h), cnonce, ok)
                  ELSE IF w.sasl.state = SASL_AUTH_STATE_DIGEST_MD5_SENT_AUTH_RESPONSE
                       THEN digest_md5_check_server_response(w, Deref(h), ok)
                       ELSE Invoke(w, FALSE, Ptr("server error"))

\* node is the <challenge/> element: value is its text, NULL when it has none.
digest_md5_handle_challenge(w, node, cnonce, ok) ==
    IF IsNull(node.value) THEN w
    ELSE LET h == digest_md5_challenge_to_hash(base64_decode(Deref(node.value)))
         IN  IF IsNull(h) THEN Invoke(w, FALSE, Ptr("server error"))
             ELSE IF w.sasl.state = SASL_AUTH_STATE_DIGEST_MD5_STARTED
                  THEN digest_md5_send_initial_response(w, Deref(h), cnonce, ok)
                  ELSE IF w.sasl.state = SASL_AUTH_STATE_DIGEST_MD5_SENT_AUTH_RESPONSE
                       THEN digest_md5_check_server_response(w, Deref(h), ok)
                       ELSE Invoke(w, FALSE, Ptr("server error"))

\* if (!ns || strcmp (ns, XMPP_NS_SASL_AUTH)) return ...;
NotSasl(ns) == IsNull(ns) \/ Deref(ns) # XMPP_NS_SASL_AUTH

ALLOW_MORE_HANDLERS == "LM_HANDLER_RESULT_ALLOW_MORE_HANDLERS"
REMOVE_MESSAGE == "LM_HANDLER_RESULT_REMOVE_MESSAGE"

\* A handler's outcome: the world after it and what it returned; no return
\* value when the process aborted inside it.
Returned(w, ret) == [w |-> w, ret |-> IF w.crashed THEN "aborted" ELSE ret]

\* challenge_cb without the test of the xmlns attribute.
challenge_cb_unguarded(w, message, cnonce, ok) ==
    IF w.sasl.auth_type = AUTH_TYPE_PLAIN
    THEN Returned(Invoke(w, FALSE, Ptr("server error")), REMOVE_MESSAGE)
    ELSE IF w.sasl.auth_type = AUTH_TYPE_DIGEST
         THEN Returned(digest_md5_handle_challenge(w, message, cnonce, ok), REMOVE_MESSAGE)
         ELSE Returned(g_assert_not_reached(w), REMOVE_MESSAGE)

challenge_cb(w, message, cnonce, ok) ==
    IF NotSasl(message.xmlns) THEN Returned(w, ALLOW_MORE_HANDLERS)
    ELSE IF w.sasl.auth_type = AUTH_TYPE_PLAIN
         THEN Returned(Invoke(w, FALSE, Ptr("server error")), REMOVE_MESSAGE)
         ELSE IF w.sasl.auth_type = AUTH_TYPE_DIGEST
              THEN Returned(digest_md5_handle_challenge(w, message, cnonce, ok),
                            REMOVE_MESSAGE)
              ELSE Returned(g_assert_not_reached(w), REMOVE_MESSAGE)

success_cb(w, message) ==
    IF NotSasl(message.xmlns) THEN Returned(w, ALLOW_MORE_HANDLERS)
    ELSE LET w1 == IF w.sasl.auth_type = AUTH_TYPE_PLAIN
                   THEN IF w.sasl.state # SASL_AUTH_STATE_PLAIN_STARTED
                        THEN Invoke(w, FALSE, Ptr("server error"))
                        ELSE w
                   ELSE IF w.sasl.auth_type = AUTH_TYPE_DIGEST
                        THEN IF w.sasl.state
                                    # SASL_AUTH_STATE_DIGEST_MD5_SENT_FINAL_RESPONSE
                             THEN Invoke(w, FALSE, Ptr("server error"))
                             ELSE w
                        ELSE g_assert_not_reached(w)
         IN  IF w1.crashed THEN Returned(w1, REMOVE_MESSAGE)
             ELSE Returned(Invoke(w1, TRUE, NULL), REMOVE_MESSAGE)

\* failure_cb with the first child's text left unread.
failure_cb_unread(w, message) ==
    IF NotSasl(message.xmlns) THEN Returned(w, ALLOW_MORE_HANDLERS)
    ELSE Returned(Invoke(w, FALSE, Ptr("unknown reason")), REMOVE_MESSAGE)

\* message.child is message->node->children (NULL, or the first child, whose
\* value is its text or NULL).
failure_cb(w, message) ==
    IF NotSasl(message.xmlns) THEN Returned(w, ALLOW_MORE_HANDLERS)
    ELSE LET r == IF IsNull(message.child) THEN NULL ELSE Deref(message.child).value
             reason == IF IsNull(r) THEN Ptr("unknown reason") ELSE r
         IN  Returned(Invoke(w, FALSE, reason), REMOVE_MESSAGE)

\* The <auth/> element: mech is the mechanism attribute (const char *mech),
\* value the text, ga whether the Google attributes are set.
AuthMsg(mech, value, ga) ==
    [type |-> "auth", xmlns |-> XMPP_NS_SASL_AUTH, mechanism |-> mech,
     value |-> value, ga |-> ga]

\* lm_sasl_start: the state is set before the credentials are looked at.
lm_sasl_start(w, ok) ==
    IF w.sasl.auth_type = AUTH_TYPE_PLAIN
    THEN LET w1 == [w EXCEPT !.sasl.state = SASL_AUTH_STATE_PLAIN_STARTED]
         IN  IF IsNull(w.sasl.username) \/ IsNull(w.sasl.password)
             THEN Invoke(w1, FALSE, Ptr("no username/password provided"))
             ELSE LET str == <<NUL>> \o Deref(w.sasl.username)
                             \o <<NUL>> \o Deref(w.sasl.password)
                  IN  lm_connection_send(
                          w1, AuthMsg(Ptr("PLAIN"), Ptr(base64_encode(str)), TRUE), ok)
    ELSE IF w.sasl.auth_type = AUTH_TYPE_DIGEST
         THEN LET w1 == [w EXCEPT !.sasl.state = SASL_AUTH_STATE_DIGEST_MD5_STARTED]
              IN  lm_connection_send(w1, AuthMsg(Ptr("DIGEST-MD5"), NULL, FALSE), ok)
         ELSE lm_connection_send(w, AuthMsg(NULL, NULL, FALSE), ok)

\* MechanismBits with the names compared without regard to case.
RECURSIVE MechanismBitsAnyCase(_, _)
MechanismBitsAnyCase(children, auth_type) ==
    IF children = <<>> THEN auth_type
    ELSE LET name == Head(children)
         IN  IF IsNull(name) THEN MechanismBitsAnyCase(Tail(children), auth_type)
             ELSE IF Deref(name) \in {"PLAIN", "plain"}
                  THEN MechanismBitsAnyCase(Tail(children),
                                            BitOr(auth_type, AUTH_TYPE_PLAIN))
                  ELSE IF Deref(name) = "DIGEST-MD5"
                       THEN MechanismBitsAnyCase(Tail(children),
                                                 BitOr(auth_type, AUTH_TYPE_DIGEST))
                       ELSE MechanismBitsAnyCase(Tail(children), auth_type)

\* The loop over mechanisms->children: the bitmask of the names recognised.
RECURSIVE MechanismBits(_, _)
MechanismBits(children, auth_type) ==
    IF children = <<>> THEN auth_type
    ELSE LET name == Head(children)
         IN  IF IsNull(name) THEN MechanismBits(Tail(children), auth_type)
             ELSE IF Deref(name) = "PLAIN"
                  THEN MechanismBits(Tail(children), BitOr(auth_type, AUTH_TYPE_PLAIN))
                  ELSE IF Deref(name) = "DIGEST-MD5"
                       THEN MechanismBits(Tail(children),
                                          BitOr(auth_type, AUTH_TYPE_DIGEST))
                       ELSE MechanismBits(Tail(children), auth_type)

\* PreferredMechanism with the two tests in the other order: PLAIN first.
PreferredMechanismPlainFirst(auth_type) ==
    IF BitAnd(auth_type, AUTH_TYPE_PLAIN) # 0 THEN AUTH_TYPE_PLAIN
    ELSE IF BitAnd(auth_type, AUTH_TYPE_DIGEST) # 0 THEN AUTH_TYPE_DIGEST
    ELSE 0

\* The mechanism lm_sasl_authenticate settles on for a bitmask: 0 for none.
PreferredMechanism(auth_type) ==
    IF BitAnd(auth_type, AUTH_TYPE_DIGEST) # 0 THEN AUTH_TYPE_DIGEST
    ELSE IF BitAnd(auth_type, AUTH_TYPE_PLAIN) # 0 THEN AUTH_TYPE_PLAIN
    ELSE 0

lm_sasl_authenticate(w, mechanisms, ok) ==
    IF NotSasl(mechanisms.xmlns) THEN w
    ELSE LET auth_type == MechanismBits(mechanisms.children, 0)
         IN  IF auth_type = 0 THEN w
             ELSE lm_sasl_start(
                      [w EXCEPT !.sasl.auth_type = PreferredMechanism(auth_type)], ok)

\* message.mechanisms is what lm_message_node_find_child (message->node,
\* "mechanisms") finds: NULL, or the <mechanisms/> element.
features_cb(w, message, ok) ==
    IF IsNull(message.mechanisms) THEN Returned(w, ALLOW_MORE_HANDLERS)
    ELSE Returned(lm_sasl_authenticate(w, Deref(message.mechanisms), ok),
                  ALLOW_MORE_HANDLERS)

\* ------------------------------------------------------------ the inputs

\* The credentials lm_sasl_new is given: NULL, empty or a name.
Usernames == {NULL, Ptr(<<"u">>)}
Passwords == {NULL, Ptr(<<>>), Ptr(<<"p">>)}
Server == Ptr(<<"s">>)

\* xmlns attributes: none, the SASL namespace, another namespace.
Namespaces == {NULL, Ptr(XMPP_NS_SASL_AUTH), Ptr("jabber:client")}

\* The text of a <mechanism/> child: none, the two names the code knows, a name
\* in another case, an unknown name.
MechanismNames == {NULL, Ptr("PLAIN"), Ptr("DIGEST-MD5"), Ptr("plain"), Ptr("X-OTHER")}

SeqsUpTo(S, n) == UNION {[1..k -> S] : k \in 0..n}
Range(s) == {s[i] : i \in DOMAIN s}

Mechanisms(ns, children) == [mechanisms |-> Ptr([xmlns |-> ns, children |-> children])]

\* Every <mechanisms/> element of up to MaxMechs children in the SASL namespace.
NegotiationMsgs ==
    {Mechanisms(Ptr(XMPP_NS_SASL_AUTH), cs) : cs \in SeqsUpTo(MechanismNames, MaxMechs)}

\* The stream features a server sends in a session: without <mechanisms/>, with
\* one outside the SASL namespace, and with SASL mechanism lists.
FeaturesMsgs ==
    {[mechanisms |-> NULL]}
    \cup {Mechanisms(ns, <<Ptr("PLAIN")>>) : ns \in Namespaces}
    \cup {Mechanisms(Ptr(XMPP_NS_SASL_AUTH), cs) :
             cs \in {<<>>, <<Ptr("DIGEST-MD5")>>, <<Ptr("PLAIN"), Ptr("DIGEST-MD5")>>,
                     <<Ptr("plain")>>, <<NULL, Ptr("X-OTHER")>>}}

\* Directive strings a server may send.
D_nonce == <<"n", "o", "n", "c", "e", "=", "\"", "n", "1", "\"">>
D_realm_nonce == <<"r", "e", "a", "l", "m", "=", "\"", "r", "\"", ",", "n", "o", "n", "c", "e", "=", "n", "2">>
D_qop == <<"q", "o", "p", "=", "a", "u", "t", "h">>
D_wrong_rspauth == <<"r", "s", "p", "a", "u", "t", "h", "=", "z", "z">>
D_empty_nonce == <<"n", "o", "n", "c", "e", "=", "\"", "\"">>
D_bare_empty_nonce == <<"n", "o", "n", "c", "e", "=">>
D_no_equals == <<"n", "o", "n", "c", "e">>
D_open_quote == <<"n", "o", "n", "c", "e", "=", "\"", "n", "1">>
D_rspauth(value) == <<"r", "s", "p", "a", "u", "t", "h", "=">> \o value

\* The server can compute the rspauth the client expects, so the right one is
\* among what it may send once the client has stored it.
Directives ==
    {D_nonce, D_realm_nonce, D_qop, D_wrong_rspauth, D_empty_nonce, D_bare_empty_nonce,
     D_no_equals, D_open_quote}
    \cup (IF IsNull(sasl.digest_md5_rspauth) THEN {}
          ELSE {D_rspauth(Deref(sasl.digest_md5_rspauth))})

ChallengeMsgs ==
    {[xmlns |-> ns, value |-> Ptr(base64_encode(D_nonce))] : ns \in Namespaces}
    \cup {[xmlns |-> Ptr(XMPP_NS_SASL_AUTH), value |-> v] :
             v \in {NULL} \cup {Ptr(base64_encode(d)) : d \in Directives}}

\* digest_md5_generate_cnonce: base64 of random words.
CNonces == {<<"c", "1">>, <<"c", "2">>}

SuccessMsgs == {[xmlns |-> ns] : ns \in Namespaces}

FailureMsgs ==
    {[xmlns |-> ns, child |-> NULL] : ns \in Namespaces}
    \cup {[xmlns |-> Ptr(XMPP_NS_SASL_AUTH), child |-> c] :
             c \in {Ptr([value |-> NULL]), Ptr([value |-> Ptr("not-authorized")])}}

Handlers == {"features", "challenge", "success", "failure"}

\* ------------------------------------------------------------ the machine

\* The fields a handler run may change, as they were before it.
Pre ==
    [auth_type |-> sasl.auth_type, state |-> sasl.state,
     digest_md5_rspauth |-> sasl.digest_md5_rspauth, ncalls |-> ncalls]

\* The record of a handler run.
Ran(kind, message, w, ret) ==
    [kind |-> kind, msg |-> message, pre |-> Pre, calls |-> w.calls, sent |-> w.sent,
     tx |-> w.tx, stored |-> w.stored, compared |-> w.compared, ret |-> ret]

NoMessage == [xmlns |-> NULL]

\* Nothing written or compared, nothing followed, no parser run.
NoUses == [stored |-> 0, compared |-> 0]
NoJournal == [received |-> <<>>, sent |-> <<>>, states |-> <<>>]
NoParse == [input |-> NULL, done |-> FALSE, result |-> NULL]

\* lm_sasl_new: g_new0 zeroes the object, the four handlers are registered.
Init ==
    /\ sasl \in [auth_type : {0}, state : {SASL_AUTH_STATE_NO_MECH},
                 username : Usernames, password : Passwords, server : {Server},
                 digest_md5_rspauth : {NULL}, handler : BOOLEAN]
    /\ ncalls = 0
    /\ crashed = FALSE
    /\ registered = Handlers
    /\ freed = FALSE
    /\ asserts \in BOOLEAN
    /\ last = Ran("new", NoMessage, World, "none")
    /\ uses = NoUses
    /\ journal = NoJournal
    /\ parse = NoParse

\* A handler ran on a message and came to r.
Run(kind, message, r) ==
    /\ sasl' = r.w.sasl
    /\ ncalls' = ncalls + Len(r.w.calls)
    /\ crashed' = r.w.crashed
    /\ last' = Ran(kind, message, r.w, r.ret)
    /\ uses' = [stored |-> uses.stored + r.w.stored,
                compared |-> uses.compared + r.w.compared]
    /\ UNCHANGED <<registered, freed, asserts, parse>>

\* The connection hands a message to the handler registered for it.
Handled(kind, message, r) == Run(kind, message, r) /\ UNCHANGED journal

\* The same, with the exchange followed: the message delivered, what the
\* connection took from the run, and the state the run entered.
Followed(kind, message, r) ==
    /\ Run(kind, message, r)
    /\ journal' = [received |-> Append(journal.received, [kind |-> kind, msg |-> message]),
                   sent |-> journal.sent \o r.w.sent,
                   states |-> IF r.w.sasl.state # sasl.state
                              THEN Append(journal.states, r.w.sasl.state)
                              ELSE journal.states]

\* A handler run on the freed object (its user_data): the memory may still hold
\* the fields, or the read faults.
Faulted(kind, message) ==
    /\ crashed' = TRUE
    /\ last' = Ran(kind, message, World, "aborted")
    /\ UNCHANGED <<sasl, ncalls, registered, freed, asserts, uses, journal, parse>>

Deliverable(kind) ==
    /\ ~crashed
    /\ ncalls < MaxCalls
    /\ uses.stored < MaxUses
    /\ uses.compared < MaxUses
    /\ kind \in registered

Features ==
    /\ Deliverable("features")
    /\ \E message \in FeaturesMsgs, ok \in BOOLEAN :
           Handled("features", message, features_cb(World, message, ok))

Challenge ==
    /\ Deliverable("challenge")
    /\ \E message \in ChallengeMsgs, cnonce \in CNonces, ok \in BOOLEAN :
           Handled("challenge", message, challenge_cb(World, message, cnonce, ok))

Success ==
    /\ Deliverable("success")
    /\ \E message \in SuccessMsgs :
           \/ Handled("success", message, success_cb(World, message))
           \/ freed /\ ~NotSasl(message.xmlns) /\ Faulted("success", message)

Failure ==
    /\ Deliverable("failure")
    /\ \E message \in FailureMsgs :
           \/ Handled("failure", message, failure_cb(World, message))
           \/ freed /\ ~NotSasl(message.xmlns) /\ Faulted("failure", message)

\* lm_sasl_free: only the features and the challenge handler are unregistered.
lm_sasl_free(handlers) == handlers \ {"features", "challenge"}

Free ==
    /\ ~crashed
    /\ ~freed
    /\ freed' = TRUE
    /\ registered' = lm_sasl_free(registered)
    /\ last' = Ran("free", NoMessage, World, "none")
    /\ UNCHANGED <<sasl, ncalls, crashed, asserts, uses, journal, parse>>

Next == Features \/ Challenge \/ Success \/ Failure \/ Free

Spec == Init /\ [][Next]_vars

\* Negotiation alone: every <mechanisms/> element of up to MaxMechs children is
\* handed to features_cb.
Negotiate ==
    /\ Deliverable("features")
    /\ \E message \in NegotiationMsgs, ok \in BOOLEAN :
           Handled("features", message, features_cb(World, message, ok))

\* Neither g_assert_not_reached nor a missing handler bears on negotiation:
\* one build, and sessions with a handler.
InitNegotiate == Init /\ asserts /\ sasl.handler

SpecNegotiate == InitNegotiate /\ [][Negotiate]_vars

\* One DIGEST-MD5 exchange, followed from lm_sasl_new to the server's success:
\* credentials and a result handler are present, the server offers DIGEST-MD5
\* and not PLAIN, every lm_connection_send succeeds.
InitExchange == Init /\ sasl.handler /\ ~IsNull(sasl.username) /\ ~IsNull(sasl.password)

DigestOnlyMsgs ==
    {m \in NegotiationMsgs :
        LET names == {Deref(n) : n \in {c \in Range(Deref(m.mechanisms).children) :
                                           ~IsNull(c)}}
        IN  "DIGEST-MD5" \in names /\ "PLAIN" \notin names}

SaslChallenge(directives) ==
    [xmlns |-> Ptr(XMPP_NS_SASL_AUTH), value |-> Ptr(base64_encode(directives))]

\* Challenges that carry a nonce.
NonceChallenges ==
    {SaslChallenge(d) : d \in {D_nonce, D_realm_nonce, D_qop \o <<",">> \o D_nonce}}

\* Challenges whose rspauth is the stored one, bare or quoted.
RspauthChallenges ==
    IF IsNull(sasl.digest_md5_rspauth) THEN {}
    ELSE {SaslChallenge(D_rspauth(Deref(sasl.digest_md5_rspauth))),
          SaslChallenge(D_rspauth(Quote \o Deref(sasl.digest_md5_rspauth) \o Quote))}

ExchangeFeatures ==
    /\ Len(journal.received) = 0
    /\ Deliverable("features")
    /\ \E message \in DigestOnlyMsgs :
           Followed("features", message, features_cb(World, message, TRUE))

ExchangeFirstChallenge ==
    /\ Len(journal.received) = 1
    /\ Deliverable("challenge")
    /\ \E message \in NonceChallenges, cnonce \in CNonces :
           Followed("challenge", message, challenge_cb(World, message, cnonce, TRUE))

ExchangeSecondChallenge ==
    /\ Len(journal.received) = 2
    /\ Deliverable("challenge")
    /\ \E message \in RspauthChallenges, cnonce \in CNonces :
           Followed("challenge", message, challenge_cb(World, message, cnonce, TRUE))

ExchangeSuccess ==
    /\ Len(journal.received) = 3
    /\ Deliverable("success")
    /\ Followed("success", [xmlns |-> Ptr(XMPP_NS_SASL_AUTH)],
                success_cb(World, [xmlns |-> Ptr(XMPP_NS_SASL_AUTH)]))

Exchange ==
    ExchangeFeatures \/ ExchangeFirstChallenge \/ ExchangeSecondChallenge
    \/ ExchangeSuccess

SpecExchange == InitExchange /\ [][Exchange]_vars

\* The parser alone: digest_md5_challenge_to_hash is handed directive strings
\* k1="v1",k2=v2. v1 is written as units: a character, or a backslash and the
\* character it escapes.
Backslash == <<"\\">>
Units == {<<"a">>, Backslash \o Quote, Backslash \o Backslash, Backslash \o <<"a">>}

RECURSIVE Flatten(_)
Flatten(units) == IF units = <<>> THEN <<>> ELSE Head(units) \o Flatten(Tail(units))

ParserInputs ==
    [k1 : {<<"k">>}, k2 : {<<"j">>, <<"k", "j">>},
     v1 : SeqsUpTo(Units, MaxUnits) \ {<<>>}, v2 : {<<"x">>, <<"x", "y">>}]

DirectiveString(in) ==
    in.k1 \o <<"=">> \o Quote \o Flatten(in.v1) \o Quote \o <<",">> \o in.k2 \o <<"=">>
    \o in.v2

InitParser ==
    /\ sasl = [auth_type |-> 0, state |-> SASL_AUTH_STATE_NO_MECH, username |-> NULL,
               password |-> NULL, server |-> Server, digest_md5_rspauth |-> NULL,
               handler |-> FALSE]
    /\ ncalls = 0
    /\ crashed = FALSE
    /\ registered = Handlers
    /\ freed = FALSE
    /\ asserts = TRUE
    /\ last = Ran("new", NoMessage, World, "none")
    /\ uses = NoUses
    /\ journal = NoJournal
    /\ parse \in [input : {Ptr(in) : in \in ParserInputs}, done : {FALSE}, result : {NULL}]

ParseChallenge ==
    /\ ~parse.done
    /\ parse' = [parse EXCEPT
                     !.done = TRUE,
                     !.result = digest_md5_challenge_to_hash(
                                    DirectiveString(Deref(parse.input)))]
    /\ UNCHANGED <<sasl, ncalls, crashed, registered, freed, asserts, last, uses, journal>>

SpecParser == InitParser /\ [][ParseChallenge]_vars

\* ------------------------------------------------------------ the claims

\* The last handler run was given a message in the SASL namespace.
SaslRun(kind) == last.kind = kind /\ ~NotSasl(last.msg.xmlns)

Call(success, reason) == [success |-> success, reason |-> reason]
ServerError == Call(FALSE, Ptr("server error"))

StateKept == sasl.state = last.pre.state
NothingSent == last.sent = <<>> /\ last.tx = <<>>

\* The names a <mechanisms/> element advertises.
Advertised(children) ==
    {Deref(children[i]) : i \in {j \in DOMAIN children : ~IsNull(children[j])}}

\* The last run was features_cb on a <mechanisms/> element in the SASL namespace.
SaslFeaturesRun ==
    /\ last.kind = "features"
    /\ ~IsNull(last.msg.mechanisms)
    /\ ~NotSasl(Deref(last.msg.mechanisms).xmlns)

LastChildren == Deref(last.msg.mechanisms).children

\* C1: over all messages delivered to a session the result callback is invoked
\* at most once, and no single message invokes it more than once.
C1_CallbackAtMostOnce == ncalls <= 1 /\ Len(last.calls) <= 1

\* The challenge of the last run, parsed (NULL when it has no text or does not
\* parse).
LastChallenge ==
    IF IsNull(last.msg.value) THEN NULL
    ELSE digest_md5_challenge_to_hash(base64_decode(Deref(last.msg.value)))

\* C2: in DigestSentAuthResponse a well-formed challenge without rspauth, or
\* with an rspauth that differs from the stored one, invokes the callback with
\* (false, "server error"), sends nothing and leaves the state.
C2_BadRspauthFails ==
    (/\ SaslRun("challenge")
     /\ sasl.handler
     /\ last.pre.auth_type = AUTH_TYPE_DIGEST
     /\ last.pre.state = SASL_AUTH_STATE_DIGEST_MD5_SENT_AUTH_RESPONSE
     /\ ~IsNull(LastChallenge)
     /\ g_hash_table_lookup(Deref(LastChallenge), K_rspauth) # last.pre.digest_md5_rspauth)
    => (last.calls = <<ServerError>> /\ NothingSent /\ StateKept)

\* C3: once the callback has fired, every later features, challenge, success or
\* failure message is ignored: no callback, no message sent, state and
\* mechanism unchanged.
C3_IgnoredAfterResult ==
    (last.kind \in Handlers /\ last.pre.ncalls > 0)
    => (/\ last.calls = <<>>
        /\ NothingSent
        /\ StateKept
        /\ sasl.auth_type = last.pre.auth_type)

\* C4: a SASL challenge in NoMechanism, PlainStarted or DigestSentFinalResponse
\* is handled to completion and gives exactly the callback (false, "server
\* error"), with nothing sent and the state unchanged.
C4_ChallengeOutOfOrderFails ==
    (/\ SaslRun("challenge")
     /\ sasl.handler
     /\ last.pre.state \in {SASL_AUTH_STATE_NO_MECH, SASL_AUTH_STATE_PLAIN_STARTED,
                            SASL_AUTH_STATE_DIGEST_MD5_SENT_FINAL_RESPONSE})
    => (/\ ~crashed
        /\ last.ret = REMOVE_MESSAGE
        /\ last.calls = <<ServerError>>
        /\ NothingSent
        /\ StateKept)

\* C5: a SASL success message in any state is handled to completion and the
\* caller is told (true, no reason), and nothing else.
C5_SuccessAlwaysReported ==
    (SaslRun("success") /\ sasl.handler /\ ~freed)
    => (/\ ~crashed
        /\ last.ret = REMOVE_MESSAGE
        /\ last.calls = <<Call(TRUE, NULL)>>)

\* C6: after lm_sasl_free none of the four handlers is registered, and no
\* handler of the session runs.
C6_NoHandlerAfterFree ==
    freed => (registered = {} /\ last.kind \notin Handlers)

\* C7: a features message that arrives after a mechanism was started selects
\* no mechanism, sends no auth message and leaves the state.
C7_FeaturesOnlyOnce ==
    (last.kind = "features" /\ last.pre.state # SASL_AUTH_STATE_NO_MECH)
    => (sasl.auth_type = last.pre.auth_type /\ NothingSent /\ StateKept)

\* The mechanism the specification selects for a set of advertised names: 0
\* when negotiation fails.
Selected(names) ==
    IF "DIGEST-MD5" \in names THEN AUTH_TYPE_DIGEST
    ELSE IF "PLAIN" \in names THEN AUTH_TYPE_PLAIN
    ELSE 0

\* C8: the mechanism selected depends on the set of advertised names only:
\* DIGEST-MD5 when "DIGEST-MD5" is among them, else PLAIN when "PLAIN" is, else
\* negotiation fails (nothing is selected, started or sent); names are matched
\* case-sensitively, children without a name and unknown names are skipped.
C8_SelectionBySet ==
    SaslFeaturesRun
    => IF Selected(Advertised(LastChildren)) = 0
       THEN sasl.auth_type = last.pre.auth_type /\ StateKept /\ NothingSent
       ELSE /\ sasl.auth_type = Selected(Advertised(LastChildren))
            /\ sasl.state = IF sasl.auth_type = AUTH_TYPE_DIGEST
                            THEN SASL_AUTH_STATE_DIGEST_MD5_STARTED
                            ELSE SASL_AUTH_STATE_PLAIN_STARTED

\* DIGEST-MD5 was selected from a list that names PLAIN first, with a duplicate
\* or an unnamed child beside.
C8_Witness ==
    /\ SaslFeaturesRun
    /\ Len(LastChildren) = MaxMechs
    /\ LastChildren[1] = Ptr("PLAIN")
    /\ LastChildren[Len(LastChildren)] = Ptr("DIGEST-MD5")
    /\ sasl.auth_type = AUTH_TYPE_DIGEST
    /\ last.sent # <<>>

EmptyString(p) == IsNull(p) \/ Deref(p) = <<>>

\* C9: when PLAIN is started and the username or the password is missing or
\* empty, the callback is invoked with (false, "no username/password provided")
\* and no auth message is sent.
C9_PlainNeedsCredentials ==
    (/\ SaslFeaturesRun
     /\ sasl.handler
     /\ PreferredMechanism(MechanismBits(LastChildren, 0)) = AUTH_TYPE_PLAIN
     /\ (EmptyString(sasl.username) \/ EmptyString(sasl.password)))
    => (/\ last.calls = <<Call(FALSE, Ptr("no username/password provided"))>>
        /\ NothingSent)

\* C10: a features message that advertises neither "PLAIN" nor "DIGEST-MD5"
\* leaves mechanism, state and stored expected rspauth as they were and sends
\* nothing.
C10_NoMechanismNoChange ==
    (/\ SaslFeaturesRun
     /\ Advertised(LastChildren) \cap {"PLAIN", "DIGEST-MD5"} = {})
    => (/\ sasl.auth_type = last.pre.auth_type
        /\ StateKept
        /\ sasl.digest_md5_rspauth = last.pre.digest_md5_rspauth
        /\ NothingSent)

\* Such a features message reached a session that had started DIGEST-MD5 and
\* stored an expected rspauth.
C10_Witness ==
    /\ SaslFeaturesRun
    /\ LastChildren = <<Ptr("plain")>>
    /\ last.pre.auth_type = AUTH_TYPE_DIGEST
    /\ ~IsNull(last.pre.digest_md5_rspauth)
    /\ sasl.state = SASL_AUTH_STATE_DIGEST_MD5_SENT_AUTH_RESPONSE

\* The first n of s, all of s when it is shorter.
FirstOf(s, n) == SubSeq(s, 1, IF n < Len(s) THEN n ELSE Len(s))

\* The messages and the states of a complete DIGEST-MD5 exchange.
IsDigestAuth(m) == m.type = "auth" /\ m.mechanism = Ptr("DIGEST-MD5")
IsResponse(m) == m.type = "response"
DigestStates ==
    <<SASL_AUTH_STATE_DIGEST_MD5_STARTED, SASL_AUTH_STATE_DIGEST_MD5_SENT_AUTH_RESPONSE,
      SASL_AUTH_STATE_DIGEST_MD5_SENT_FINAL_RESPONSE>>

\* C11: with credentials present, only DIGEST-MD5 offered, every send
\* succeeding, and the server delivering a challenge with a nonce, a challenge
\* with the expected rspauth and success, the client emits exactly
\* auth(DIGEST-MD5), a non-empty response and an empty response in this order,
\* the state passes DigestStarted, DigestSentAuthResponse and
\* DigestSentFinalResponse in this order, and the callback is invoked exactly
\* once, with (true, no reason), on success.
C11_DigestExchange ==
    LET n == Len(journal.received)
    IN  /\ journal.states = FirstOf(DigestStates, n)
        /\ Len(journal.sent) = Len(FirstOf(DigestStates, n))
        /\ n >= 1 => IsDigestAuth(journal.sent[1])
        /\ n >= 2 => IsResponse(journal.sent[2]) /\ ~EmptyString(journal.sent[2].value)
        /\ n >= 3 => IsResponse(journal.sent[3]) /\ IsNull(journal.sent[3].value)
        /\ ncalls = IF n = 4 THEN 1 ELSE 0
        /\ n = 4 => last.calls = <<Call(TRUE, NULL)>>

\* The exchange was followed to the server's success.
C11_Witness ==
    /\ Len(journal.received) = 4
    /\ last.kind = "success"
    /\ Len(journal.sent) = 3
    /\ sasl.state = SASL_AUTH_STATE_DIGEST_MD5_SENT_FINAL_RESPONSE
    /\ ncalls = 1

\* The text of the first child of the last run's <failure/>, NULL without one.
FailureText ==
    IF IsNull(last.msg.child) THEN NULL ELSE Deref(last.msg.child).value

\* C12: a SASL failure message, in any state, invokes the callback once with
\* success=false and as reason the text of the message's first child, or
\* "unknown reason" when there is no child or the child has no text; it sends
\* nothing and leaves the state.
C12_FailureReported ==
    (SaslRun("failure") /\ sasl.handler /\ ~freed)
    => (/\ last.calls = <<Call(FALSE, IF IsNull(FailureText) THEN Ptr("unknown reason")
                                      ELSE FailureText)>>
        /\ NothingSent
        /\ StateKept
        /\ sasl.auth_type = last.pre.auth_type
        /\ last.ret = REMOVE_MESSAGE)

\* A failure with a reason reached a DIGEST-MD5 session waiting for the
\* server's rspauth.
C12_Witness ==
    /\ SaslRun("failure")
    /\ sasl.handler
    /\ ~freed
    /\ FailureText = Ptr("not-authorized")
    /\ sasl.state = SASL_AUTH_STATE_DIGEST_MD5_SENT_AUTH_RESPONSE
    /\ last.calls = <<Call(FALSE, Ptr("not-authorized"))>>

\* C13: when lm_connection_send returns FALSE in a step that sends (the auth
\* message of PLAIN or DIGEST-MD5, the first DIGEST-MD5 response, the empty
\* final response), the state after the step is the state before it.
C13_SendFailureKeepsState ==
    (last.kind \in {"features", "challenge"} /\ FALSE \in Range(last.tx)) => StateKept

\* The last run was challenge_cb on a SASL challenge with text, in a session
\* that had selected DIGEST-MD5.
DigestChallengeRun ==
    /\ SaslRun("challenge")
    /\ last.pre.auth_type = AUTH_TYPE_DIGEST
    /\ ~IsNull(last.msg.value)

RspauthKept == sasl.digest_md5_rspauth = last.pre.digest_md5_rspauth

\* C14: in a DIGEST-MD5 session, whatever its state, a challenge whose
\* directive string does not parse gives exactly the callback (false, "server
\* error"): nothing is sent, state and stored expected rspauth stay, and the
\* handler returns normally.
C14_ParseFailure ==
    (DigestChallengeRun /\ sasl.handler /\ IsNull(LastChallenge))
    => (/\ last.calls = <<ServerError>>
        /\ NothingSent
        /\ StateKept
        /\ RspauthKept
        /\ last.stored = 0
        /\ last.compared = 0
        /\ ~crashed
        /\ last.ret = REMOVE_MESSAGE)

\* An unparsable challenge reached a session that was waiting for the
\* server's rspauth.
C14_Witness ==
    /\ DigestChallengeRun
    /\ sasl.handler
    /\ IsNull(LastChallenge)
    /\ last.pre.state = SASL_AUTH_STATE_DIGEST_MD5_SENT_AUTH_RESPONSE
    /\ ~IsNull(sasl.digest_md5_rspauth)
    /\ last.calls = <<ServerError>>

\* The text of the last run's challenge.
LastText == base64_decode(Deref(last.msg.value))

\* The places of a directive string where a directive named key begins.
DirectiveAt(d, key) ==
    {i \in 1..Len(d) :
        /\ i = 1 \/ d[i - 1] = ","
        /\ i + Len(key) <= Len(d)
        /\ SubSeq(d, i, i + Len(key)) = key \o <<"=">>}

\* What follows the "=" of the directive at i is no value: the end, a comma, or
\* an empty pair of quotes.
EmptyValueAt(d, i, key) ==
    LET v == i + Len(key) + 1
    IN  \/ At(d, v) \in {NUL, ","}
        \/ At(d, v) = "\"" /\ At(d, v + 1) = "\""

\* The nonce directive is absent, or its value is the empty string.
NonceAbsentOrEmpty(d) == \A i \in DirectiveAt(d, K_nonce) : EmptyValueAt(d, i, K_nonce)

Unescaped(units) == [i \in DOMAIN units |-> units[i][Len(units[i])]]

\* The table the specification gives for k1="v1",k2=v2.
Recovered(in) == g_hash_table_insert(g_hash_table_insert(EmptyTable, in.k1, Unescaped(in.v1)),
                                     in.k2, in.v2)

\* C16: for every directive string k1="v1",k2=v2, where v1 may hold escaped
\* quotes and escaped backslashes, the parser succeeds and returns exactly
\* {k1: unescape(v1), k2: v2}: a quoted value ends at the first quote that is
\* not escaped, and every pair \X is unescaped to X.
C16_ParserRoundTrip ==
    parse.done => parse.result = Ptr(Recovered(Deref(parse.input)))

\* C17: over a whole session the stored expected rspauth is written at most
\* once and compared with a server's rspauth at most once.
C17_RspauthOnce == uses.stored <= 1 /\ uses.compared <= 1

\* The last run was given a message that is not this session's: a challenge,
\* success or failure whose xmlns is missing or not the SASL namespace, or a
\* features message whose <mechanisms/> is missing or not in that namespace.
ForeignRun ==
    \/ /\ last.kind \in {"challenge", "success", "failure"}
       /\ \/ IsNull(last.msg.xmlns)
          \/ Deref(last.msg.xmlns) # XMPP_NS_SASL_AUTH
    \/ /\ last.kind = "features"
       /\ \/ IsNull(last.msg.mechanisms)
          \/ IsNull(Deref(last.msg.mechanisms).xmlns)
          \/ Deref(Deref(last.msg.mechanisms).xmlns) # XMPP_NS_SASL_AUTH

\* C18: such a message leaves the session untouched: no callback, nothing
\* sent, state, selected mechanism and stored expected rspauth unchanged, and
\* the message is passed on to other handlers.
C18_ForeignIgnored ==
    ForeignRun
    => (/\ last.calls = <<>>
        /\ NothingSent
        /\ StateKept
        /\ sasl.auth_type = last.pre.auth_type
        /\ RspauthKept
        /\ last.stored = 0
        /\ last.compared = 0
        /\ ~crashed
        /\ last.ret = ALLOW_MORE_HANDLERS)

\* A challenge with a nonce, in another namespace, reached a session with a
\* handler and credentials in DigestStarted.
C18_Witness ==
    /\ last.kind = "challenge"
    /\ last.msg.xmlns = Ptr("jabber:client")
    /\ last.pre.state = SASL_AUTH_STATE_DIGEST_MD5_STARTED
    /\ sasl.handler
    /\ ~IsNull(sasl.username)
    /\ ~IsNull(sasl.password)
    /\ last.ret = ALLOW_MORE_HANDLERS

\* The last run took the session into state s.
Entered(s) == sasl.state = s /\ last.pre.state # s

\* C19 (i): the run that takes a session into DigestSentFinalResponse is a
\* challenge run in DigestSentAuthResponse whose parsed rspauth equals the
\* stored expected rspauth, and which then sent the empty final response.
FinalByMatch ==
    Entered(SASL_AUTH_STATE_DIGEST_MD5_SENT_FINAL_RESPONSE)
    => (/\ DigestChallengeRun
        /\ last.pre.state = SASL_AUTH_STATE_DIGEST_MD5_SENT_AUTH_RESPONSE
        /\ ~IsNull(LastChallenge)
        /\ ~IsNull(last.pre.digest_md5_rspauth)
        /\ g_hash_table_lookup(Deref(LastChallenge), K_rspauth)
               = last.pre.digest_md5_rspauth
        /\ last.compared = 1
        /\ last.sent = <<ResponseMsg(NULL)>>
        /\ last.tx = <<TRUE>>)

\* C19 (ii): the expected rspauth a session holds in DigestSentAuthResponse was
\* generated and stored since the mechanism was started: the run that enters
\* this state comes from DigestStarted and stores it, and no run that stays in
\* this state writes it.
StoredSinceStart ==
    /\ Entered(SASL_AUTH_STATE_DIGEST_MD5_SENT_AUTH_RESPONSE)
       => (/\ DigestChallengeRun
           /\ last.pre.state = SASL_AUTH_STATE_DIGEST_MD5_STARTED
           /\ last.stored = 1
           /\ ~IsNull(sasl.digest_md5_rspauth)
           /\ last.tx = <<TRUE>>)
    /\ (/\ last.kind \in Handlers
        /\ sasl.state = SASL_AUTH_STATE_DIGEST_MD5_SENT_AUTH_RESPONSE
        /\ last.pre.state = SASL_AUTH_STATE_DIGEST_MD5_SENT_AUTH_RESPONSE)
       => (last.stored = 0 /\ RspauthKept)

\* C19 (iii): DigestStarted is entered by starting the mechanism, which a
\* features message does and nothing else.
StartedByFeatures ==
    Entered(SASL_AUTH_STATE_DIGEST_MD5_STARTED)
    => (SaslFeaturesRun /\ sasl.auth_type = AUTH_TYPE_DIGEST)

\* C19: a session is in DigestSentFinalResponse only if, since the mechanism
\* was started, it generated and stored an expected rspauth, then received a
\* challenge whose rspauth is equal to the stored value, and then sent the
\* empty final response; a session starts in NoMechanism, and (i)-(iii)
\* constrain every run that enters one of the three DIGEST-MD5 states.
C19_FinalOnlyByMatch ==
    /\ last.kind = "new" => sasl.state = SASL_AUTH_STATE_NO_MECH
    /\ FinalByMatch
    /\ StoredSinceStart
    /\ StartedByFeatures

\* A run entered DigestSentFinalResponse.
C19_Witness ==
    /\ Entered(SASL_AUTH_STATE_DIGEST_MD5_SENT_FINAL_RESPONSE)
    /\ last.kind = "challenge"
    /\ last.sent = <<ResponseMsg(NULL)>>

\* C20: an auth message is sent only by a features run on a SASL mechanism
\* list, never by a challenge, success or failure run; and an auth message
\* with mechanism "PLAIN", the one that carries the password, only when that
\* list names "PLAIN" and does not name "DIGEST-MD5".
C20_PlainOnlyWhenOffered ==
    \A i \in DOMAIN last.sent :
        last.sent[i].type = "auth"
        => (/\ SaslFeaturesRun
            /\ last.sent[i].mechanism = Ptr("PLAIN")
               => (/\ "PLAIN" \in Advertised(LastChildren)
                   /\ "DIGEST-MD5" \notin Advertised(LastChildren)))

\* The PLAIN auth message, with the password in it, was sent.
C20_Witness ==
    /\ SaslFeaturesRun
    /\ LastChildren = <<Ptr("PLAIN")>>
    /\ sasl.password = Ptr(<<"p">>)
    /\ Len(last.sent) = 1
    /\ last.sent[1].type = "auth"
    /\ last.sent[1].mechanism = Ptr("PLAIN")
    /\ last.sent[1].value
           = Ptr(base64_encode(<<NUL>> \o Deref(sasl.username) \o <<NUL, "p">>))

====
